---- MODULE Spec2Model ----
(***************************************************************************)
(* Model of Multi_Input_Excel_Engine.py: the batch driver `main`, the      *)
(* per-case Excel automation `process_design_file` and its cleanup, the    *)
(* input loader and the output template builder.                           *)
(*                                                                         *)
(* Every call into an external library (COM, Excel, psutil) either returns *)
(* or raises a Python Exception; the model chooses between the two, and    *)
(* then follows Python's try / except / finally control flow as written.   *)
(***************************************************************************)
EXTENDS Integers, Sequences, FiniteSets, TLC

\* Largest number of data rows of Input.xlsx that is explored.
MaxRows == 3

\* ----------------------------------------------------------------- values
\* Python's None, as read from an empty cell.
None == "None"

\* Column headers of Input.xlsx, in sheet order (the keys of PARAM_MAP).
Keys == <<"width", "length", "cohesion", "phi", "gwt_depth", "burial_depth">>

\* The keys main requires to be present in a row.
RequiredKeys == {"width", "length", "cohesion", "phi"}

\* The keys of PARAM_MAP in the dict's order, the order in which
\* process_design_file writes them into Design.xlsx (cells D26, D27, D20,
\* D19, D33, D28).
PARAM_MAP == <<"width", "length", "cohesion", "phi", "gwt_depth", "burial_depth">>

\* Header of the result column of Output.xlsx.
SBC_HEADER == "Safe_Bearing_Capacity_kN_m2"

\* Values Excel can hand back from the result cell B68.
ResultValues == {"150.0", "200.0"}

KeySet == {Keys[i] : i \in 1..Len(Keys)}

\* Sheet rows of Input.xlsx, as cell values in column order: a fully
\* populated row, and a second one that differs in width and lacks the
\* optional gwt_depth.
RowA == <<"1.0", "1.0", "1.0", "1.0", "1.0", "1.0">>
RowB == <<"2.0", "1.0", "1.0", "1.0", None, "1.0">>

\* The rows an input table is built from: the two above, and RowA with one
\* of the four required cells (columns 1..4) left empty.
InputRows == {RowA, RowB} \cup {[RowA EXCEPT ![c] = None] : c \in 1..4}

\* All input tables of at most MaxRows data rows.
InputTables == UNION {[1..n -> InputRows] : n \in 0..MaxRows}

\* ------------------------------------------------------ pure functions
\* dict(zip(headers, row)): each header keyed to the cell of its column (of
\* its last column, were a header repeated).
ZipDict(headers, row) ==
  [k \in {headers[i] : i \in 1..Len(headers)} |->
     row[CHOOSE i \in 1..Len(headers) :
           /\ headers[i] = k
           /\ \A j \in 1..Len(headers) : headers[j] = k => j <= i]]

\* load_parameter_sets: every data row as a dict keyed by the header row.
load_parameter_sets(table) == [i \in 1..Len(table) |-> ZipDict(Keys, table[i])]

\* The filter with phi left out of the required keys.
IsValid_mut(row) == \A key \in {"width", "length", "cohesion"} : row[key] # None

\* The filter predicate of main's list comprehension.
IsValid(row) == \A key \in RequiredKeys : row[key] # None

\* valid_rows = [row for row in rows if all(...)]
FilterValid(rows) == SelectSeq(rows, IsValid)

\* create_output_template: a sheet holding only the header row (row 1).
create_output_template(rows) ==
  LET keys == Keys  \* list(rows[0].keys()); every row has the header's keys
  IN  (1 :> (keys \o <<SBC_HEADER>>))

DigitChar == <<"0", "1", "2", "3", "4", "5", "6", "7", "8", "9">>

RECURSIVE DecimalDigits(_)
\* The decimal digits of n >= 0, most significant first.
DecimalDigits(n) ==
  IF n < 10 THEN <<DigitChar[n + 1]>>
  ELSE DecimalDigits(n \div 10) \o <<DigitChar[(n % 10) + 1]>>

RECURSIVE ZeroPad(_, _)
ZeroPad(s, width) == IF Len(s) >= width THEN s ELSE ZeroPad(<<"0">> \o s, width)

\* f"{case_idx:03d}"
Format03d(n) == ZeroPad(DecimalDigits(n), 3)

\* DESIGN_CASES_DIR / f"Design_Case_{case_idx:03d}.xlsx", as the file name's
\* pieces.
OutputPath(case_idx) == <<"Design_Case_">> \o Format03d(case_idx) \o <<".xlsx">>

\* The row number passed as the case index.
CaseIndex_mut(r) == r

\* The case index main passes for the row it is about to write at r.
CaseIndex(r) == r - 1

\* The result written into column 1, the values shifted right.
OutputRow_mut(param_set, sbc) ==
  [c \in 1..(Len(Keys) + 1) |-> IF c = 1 THEN sbc ELSE param_set[Keys[c - 1]]]

\* The cells main writes for one succeeded case: the record's values in key
\* order, then the result in column len(param_set)+1.
OutputRow(param_set, sbc) ==
  [c \in 1..(Len(Keys) + 1) |-> IF c <= Len(Keys) THEN param_set[Keys[c]] ELSE sbc]

\* ----------------------------------------------------------------- state
VARIABLES
  inputExists,   \* INPUT_FILE.exists()
  designExists,  \* DESIGN_FILE.exists()
  inputTable,    \* the data rows of Input.xlsx, under the header row Keys
  pc,            \* where main is
  error,         \* the exception that ended main, or None
  dirMade,       \* DESIGN_CASES_DIR.mkdir was called
  rows,          \* main's rows
  valid_rows,    \* main's valid_rows
  ws_out,        \* the Results sheet: row number -> cells, written rows only
  r_idx,         \* main's loop variable
  outputFile,    \* the sheet saved as Output.xlsx (no rows until saved)
  saveCount,     \* number of wb_out.save calls
  artifacts,     \* files in DESIGN_CASES_DIR written by this run
  dpc,           \* where process_design_file is
  excel,         \* process_design_file's excel
  wb,            \* process_design_file's wb
  sbc,           \* process_design_file's sbc
  cells,         \* the values written into the open workbook's Design sheet
  pending,       \* how the try block was left: "return", "raise" or None
  raised,        \* process_design_file ended by raising
  trace,         \* the external calls of the current invocation, in order
  sweeps,        \* kill_excel_processes calls completed in this invocation
  driven,        \* every invocation of process_design_file so far
  results        \* every normal return of process_design_file so far

mainVars == <<pc, error, dirMade, rows, valid_rows, ws_out, r_idx, outputFile, saveCount>>
envVars == <<inputExists, designExists, inputTable>>
drvVars == <<dpc, excel, wb, sbc, cells, pending, raised, trace, sweeps>>
histVars == <<driven, results>>
vars == <<inputExists, designExists, inputTable, pc, error, dirMade, rows,
          valid_rows, ws_out, r_idx, outputFile, saveCount, artifacts, dpc,
          excel, wb, sbc, cells, pending, raised, trace, sweeps, driven, results>>

Init ==
  /\ inputExists \in BOOLEAN
  /\ designExists \in BOOLEAN
  /\ inputTable \in (IF inputExists THEN InputTables ELSE {<<>>})
  /\ pc = "check_input"
  /\ error = None
  /\ dirMade = FALSE
  /\ rows = <<>>
  /\ valid_rows = <<>>
  /\ ws_out = <<>>
  /\ r_idx = 2
  /\ outputFile = <<>>
  /\ saveCount = 0
  /\ artifacts = {}
  /\ dpc = "idle"
  /\ excel = None
  /\ wb = None
  /\ sbc = None
  /\ cells = <<>>
  /\ pending = None
  /\ raised = FALSE
  /\ trace = <<>>
  /\ sweeps = 0
  /\ driven = <<>>
  /\ results = <<>>

\* ------------------------------------------------------------------ main
Abort(exc) == /\ pc' = "aborted"
              /\ error' = exc

\* if not INPUT_FILE.exists(): raise FileNotFoundError
CheckInput ==
  /\ pc = "check_input"
  /\ IF inputExists
       THEN pc' = "check_design" /\ error' = error
       ELSE Abort("FileNotFoundError")
  /\ UNCHANGED <<dirMade, rows, valid_rows, ws_out, r_idx, outputFile, saveCount>>
  /\ UNCHANGED <<envVars, drvVars, histVars, artifacts>>

\* The template check left out.
CheckDesign_mut ==
  /\ pc = "check_design"
  /\ pc' = "mkdir"
  /\ UNCHANGED <<error, dirMade, rows, valid_rows, ws_out, r_idx, outputFile, saveCount>>
  /\ UNCHANGED <<envVars, drvVars, histVars, artifacts>>

\* if not DESIGN_FILE.exists(): raise FileNotFoundError
CheckDesign ==
  /\ pc = "check_design"
  /\ IF designExists
       THEN pc' = "mkdir" /\ error' = error
       ELSE Abort("FileNotFoundError")
  /\ UNCHANGED <<dirMade, rows, valid_rows, ws_out, r_idx, outputFile, saveCount>>
  /\ UNCHANGED <<envVars, drvVars, histVars, artifacts>>

\* DESIGN_CASES_DIR.mkdir(exist_ok=True)
MakeDir ==
  /\ pc = "mkdir"
  /\ dirMade' = TRUE
  /\ pc' = "load"
  /\ UNCHANGED <<error, rows, valid_rows, ws_out, r_idx, outputFile, saveCount>>
  /\ UNCHANGED <<envVars, drvVars, histVars, artifacts>>

\* rows = load_parameter_sets(INPUT_FILE); if not rows: raise ValueError
LoadRows ==
  /\ pc = "load"
  /\ rows' = load_parameter_sets(inputTable)
  /\ IF rows' = <<>>
       THEN Abort("ValueError")
       ELSE pc' = "filter" /\ error' = error
  /\ UNCHANGED <<dirMade, valid_rows, ws_out, r_idx, outputFile, saveCount>>
  /\ UNCHANGED <<envVars, drvVars, histVars, artifacts>>

\* valid_rows = [row for row in rows if ...]
FilterRows ==
  /\ pc = "filter"
  /\ valid_rows' = FilterValid(rows)
  /\ pc' = "template"
  /\ UNCHANGED <<error, dirMade, rows, ws_out, r_idx, outputFile, saveCount>>
  /\ UNCHANGED <<envVars, drvVars, histVars, artifacts>>

\* wb_out = create_output_template(valid_rows); rows[0] raises IndexError on
\* an empty list.
BuildTemplate ==
  /\ pc = "template"
  /\ IF valid_rows = <<>>
       THEN Abort("IndexError") /\ ws_out' = ws_out
       ELSE /\ ws_out' = create_output_template(valid_rows)
            /\ pc' = "loop"
            /\ error' = error
  /\ UNCHANGED <<dirMade, rows, valid_rows, r_idx, outputFile, saveCount>>
  /\ UNCHANGED <<envVars, drvVars, histVars, artifacts>>

\* The position in valid_rows of the row enumerate(valid_rows, start=2)
\* pairs with r_idx.
Position(r) == r - 1

\* Loop head and the call process_design_file(param_set, DESIGN_FILE, r_idx - 1).
CallDriver ==
  /\ pc = "loop"
  /\ Position(r_idx) <= Len(valid_rows)
  /\ pc' = "in_driver"
  /\ dpc' = "CoInitialize"
  /\ driven' = Append(driven, [param_set |-> valid_rows[Position(r_idx)],
                                case_idx |-> CaseIndex(r_idx),
                                output_path |-> OutputPath(CaseIndex(r_idx))])
  /\ raised' = FALSE
  /\ trace' = <<>>
  /\ sweeps' = 0
  /\ excel' = None
  /\ wb' = None
  /\ sbc' = None
  /\ cells' = <<>>
  /\ pending' = None
  /\ UNCHANGED <<error, dirMade, rows, valid_rows, ws_out, r_idx, outputFile, saveCount>>
  /\ UNCHANGED <<envVars, results, artifacts>>

\* wb_out.save(OUTPUT_FILE), after the loop has run out of rows.
SaveOutput ==
  /\ pc = "loop"
  /\ Position(r_idx) > Len(valid_rows)
  /\ outputFile' = ws_out
  /\ saveCount' = saveCount + 1
  /\ pc' = "done"
  /\ UNCHANGED <<error, dirMade, rows, valid_rows, ws_out, r_idx>>
  /\ UNCHANGED <<envVars, drvVars, histVars, artifacts>>

\* --------------------------------------------------- process_design_file
\* The record and the case index of the invocation in progress.
Current == driven[Len(driven)]

\* An external call is made: it is logged, whether it returns or raises.
Called(name) == trace' = Append(trace, name)

\* pythoncom.CoInitialize(); excel = None; wb = None; output_path = ...
\* These lines stand before the try statement: an exception here leaves
\* the function at once.
CoInitialize ==
  /\ pc = "in_driver" /\ dpc = "CoInitialize"
  /\ Called("CoInitialize")
  /\ \E ok \in BOOLEAN :
       IF ok THEN dpc' = "Dispatch" /\ raised' = raised
             ELSE dpc' = "exited" /\ raised' = TRUE
  /\ UNCHANGED <<excel, wb, sbc, cells, pending, sweeps>>
  /\ UNCHANGED <<mainVars, envVars, histVars, artifacts>>

\* excel = win32com.client.Dispatch("Excel.Application")
Dispatch ==
  /\ pc = "in_driver" /\ dpc = "Dispatch"
  /\ Called("Dispatch")
  /\ \E ok \in BOOLEAN :
       IF ok THEN dpc' = "Hide" /\ excel' = "Excel.Application"
             ELSE dpc' = "except" /\ excel' = excel
  /\ UNCHANGED <<wb, sbc, cells, pending, raised, sweeps>>
  /\ UNCHANGED <<mainVars, envVars, histVars, artifacts>>

\* excel.Visible = False; excel.DisplayAlerts = False
Hide ==
  /\ pc = "in_driver" /\ dpc = "Hide"
  /\ Called("Visible")
  /\ \E ok \in BOOLEAN : dpc' = IF ok THEN "Open" ELSE "except"
  /\ UNCHANGED <<excel, wb, sbc, cells, pending, raised, sweeps>>
  /\ UNCHANGED <<mainVars, envVars, histVars, artifacts>>

\* wb = excel.Workbooks.Open(str(design_file))
Open ==
  /\ pc = "in_driver" /\ dpc = "Open"
  /\ Called("Open")
  /\ \E ok \in BOOLEAN :
       IF ok THEN dpc' = "Worksheets" /\ wb' = "Design.xlsx"
             ELSE dpc' = "except" /\ wb' = wb
  /\ UNCHANGED <<excel, sbc, cells, pending, raised, sweeps>>
  /\ UNCHANGED <<mainVars, envVars, histVars, artifacts>>

\* [ws.Name for ws in wb.Worksheets]; ws = wb.Worksheets("Design")
Worksheets ==
  /\ pc = "in_driver" /\ dpc = "Worksheets"
  /\ Called("Worksheets")
  /\ \E ok \in BOOLEAN : dpc' = IF ok THEN "Write" ELSE "except"
  /\ UNCHANGED <<excel, wb, sbc, cells, pending, raised, sweeps>>
  /\ UNCHANGED <<mainVars, envVars, histVars, artifacts>>

\* The Design sheet's cells after the first n writes of the loop over
\* PARAM_MAP.items(), each ws.Range(cell).Value = param_set[name].
WrittenCells(param_set, n) ==
  [name \in {PARAM_MAP[i] : i \in 1..n} |-> param_set[name]]

\* for name, (sheet, cell) in PARAM_MAP.items(): ws.Range(cell).Value = param_set[name]
\* The cells are written one at a time: when a write raises, the writes
\* before it stay in the open workbook.
WriteParams ==
  /\ pc = "in_driver" /\ dpc = "Write"
  /\ Called("Range.Value=")
  /\ \E n \in 0..Len(PARAM_MAP) :
       /\ cells' = WrittenCells(Current.param_set, n)
       /\ dpc' = IF n = Len(PARAM_MAP) THEN "Calculate" ELSE "except"
  /\ UNCHANGED <<excel, wb, sbc, pending, raised, sweeps>>
  /\ UNCHANGED <<mainVars, envVars, histVars, artifacts>>

\* excel.Calculate()
Calculate ==
  /\ pc = "in_driver" /\ dpc = "Calculate"
  /\ Called("Calculate")
  /\ \E ok \in BOOLEAN : dpc' = IF ok THEN "Read" ELSE "except"
  /\ UNCHANGED <<excel, wb, sbc, cells, pending, raised, sweeps>>
  /\ UNCHANGED <<mainVars, envVars, histVars, artifacts>>

\* sbc = ws.Range(SBC_CELL[1]).Value
ReadSBC ==
  /\ pc = "in_driver" /\ dpc = "Read"
  /\ Called("Range.Value")
  /\ \/ \E v \in ResultValues : dpc' = "SaveAs" /\ sbc' = v
     \/ dpc' = "except" /\ sbc' = sbc
  /\ UNCHANGED <<excel, wb, cells, pending, raised, sweeps>>
  /\ UNCHANGED <<mainVars, envVars, histVars, artifacts>>

\* The file wb.SaveAs leaves at path p, replacing any file already there.
WriteArtifact(files, p, content, result) ==
  {f \in files : f.path # p} \cup {[path |-> p, cells |-> content, sbc |-> result]}

\* wb.SaveAs(str(output_path)); return sbc, output_path
SaveAs ==
  /\ pc = "in_driver" /\ dpc = "SaveAs"
  /\ Called("SaveAs")
  /\ \E ok \in BOOLEAN :
       IF ok THEN /\ artifacts' = WriteArtifact(artifacts, Current.output_path, cells, sbc)
                  /\ pending' = "return"
                  /\ dpc' = "finally"
             ELSE /\ artifacts' = artifacts
                  /\ pending' = pending
                  /\ dpc' = "except"
  /\ UNCHANGED <<excel, wb, sbc, cells, raised, sweeps>>
  /\ UNCHANGED <<mainVars, envVars, histVars>>

\* except Exception as e: print(...); raise
Except ==
  /\ pc = "in_driver" /\ dpc = "except"
  /\ pending' = "raise"
  /\ dpc' = "finally"
  /\ UNCHANGED <<excel, wb, sbc, cells, raised, trace, sweeps>>
  /\ UNCHANGED <<mainVars, envVars, histVars, artifacts>>

\* finally: try: if wb is not None: wb.Close(SaveChanges=False)
FinallyClose ==
  /\ pc = "in_driver" /\ dpc = "finally"
  /\ IF wb # None
       THEN /\ Called("Close")
            /\ \E ok \in BOOLEAN : dpc' = IF ok THEN "finally_quit" ELSE "cleanup_except"
       ELSE /\ trace' = trace
            /\ dpc' = "finally_quit"
  /\ UNCHANGED <<excel, wb, sbc, cells, pending, raised, sweeps>>
  /\ UNCHANGED <<mainVars, envVars, histVars, artifacts>>

\* if excel is not None: excel.Quit()   (still inside the inner try)
FinallyQuit ==
  /\ pc = "in_driver" /\ dpc = "finally_quit"
  /\ IF excel # None
       THEN /\ Called("Quit")
            /\ \E ok \in BOOLEAN : dpc' = IF ok THEN "CoUninitialize" ELSE "cleanup_except"
       ELSE /\ trace' = trace
            /\ dpc' = "CoUninitialize"
  /\ UNCHANGED <<excel, wb, sbc, cells, pending, raised, sweeps>>
  /\ UNCHANGED <<mainVars, envVars, histVars, artifacts>>

\* except Exception as e: print(f"Error during cleanup: {e}")
CleanupExcept ==
  /\ pc = "in_driver" /\ dpc = "cleanup_except"
  /\ dpc' = "CoUninitialize"
  /\ UNCHANGED <<excel, wb, sbc, cells, pending, raised, trace, sweeps>>
  /\ UNCHANGED <<mainVars, envVars, histVars, artifacts>>

\* pythoncom.CoUninitialize(), in the finally block but outside its inner try:
\* an exception here replaces the pending return or exception.
CoUninitialize ==
  /\ pc = "in_driver" /\ dpc = "CoUninitialize"
  /\ Called("CoUninitialize")
  /\ \E ok \in BOOLEAN :
       IF ok THEN dpc' = "kill" /\ raised' = raised
             ELSE dpc' = "exited" /\ raised' = TRUE
  /\ UNCHANGED <<excel, wb, sbc, cells, pending, sweeps>>
  /\ UNCHANGED <<mainVars, envVars, histVars, artifacts>>

\* kill_excel_processes(), the last statement of the finally block. When it
\* returns, the function ends the way the try block was left; when psutil
\* raises (process_iter, proc.info['name'].lower(), proc.kill()), that
\* exception leaves the function instead.
kill_excel_processes ==
  /\ pc = "in_driver" /\ dpc = "kill"
  /\ Called("kill_excel_processes")
  /\ dpc' = "exited"
  /\ \E ok \in BOOLEAN :
       IF ok THEN /\ sweeps' = sweeps + 1
                  /\ raised' = (pending = "raise")
                  /\ results' = IF pending = "return"
                                  THEN Append(results, [case_idx |-> Current.case_idx,
                                                        sbc |-> sbc,
                                                        output_path |-> Current.output_path])
                                  ELSE results
             ELSE /\ sweeps' = sweeps
                  /\ raised' = TRUE
                  /\ results' = results
  /\ UNCHANGED <<excel, wb, sbc, cells, pending, driven>>
  /\ UNCHANGED <<mainVars, envVars, artifacts>>

\* ------------------------------------------------------ main, loop body
\* The locals of process_design_file are gone once main has its outcome.
DriverIdle ==
  /\ dpc' = "idle"
  /\ excel' = None
  /\ wb' = None
  /\ sbc' = None
  /\ cells' = <<>>
  /\ pending' = None
  /\ raised' = FALSE
  /\ trace' = <<>>
  /\ sweeps' = 0

\* The sheet after ws_out.cell(row=r, column=c, value=...) for every column.
WriteRow(sheet, r, row) == (r :> row) @@ sheet

\* sbc, saved_design_path = process_design_file(...) returned: the row is
\* written at r_idx.
MainSuccess ==
  /\ pc = "in_driver" /\ dpc = "exited" /\ ~raised
  /\ ws_out' = WriteRow(ws_out, r_idx, OutputRow(Current.param_set, sbc))
  /\ r_idx' = r_idx + 1
  /\ pc' = "loop"
  /\ DriverIdle
  /\ UNCHANGED <<error, dirMade, rows, valid_rows, outputFile, saveCount>>
  /\ UNCHANGED <<envVars, histVars, artifacts>>

\* The exception of a case let through instead of caught.
MainCatch_mut ==
  /\ pc = "in_driver" /\ dpc = "exited" /\ raised
  /\ Abort("Exception")
  /\ DriverIdle
  /\ UNCHANGED <<dirMade, rows, valid_rows, ws_out, r_idx, outputFile, saveCount>>
  /\ UNCHANGED <<envVars, histVars, artifacts>>

\* except Exception as e: print(...); continue
MainCatch ==
  /\ pc = "in_driver" /\ dpc = "exited" /\ raised
  /\ r_idx' = r_idx + 1
  /\ pc' = "loop"
  /\ DriverIdle
  /\ UNCHANGED <<error, dirMade, rows, valid_rows, ws_out, outputFile, saveCount>>
  /\ UNCHANGED <<envVars, histVars, artifacts>>

Next ==
  \/ CheckInput \/ CheckDesign \/ MakeDir \/ LoadRows \/ FilterRows
  \/ BuildTemplate \/ CallDriver \/ SaveOutput
  \/ CoInitialize \/ Dispatch \/ Hide \/ Open \/ Worksheets \/ WriteParams
  \/ Calculate \/ ReadSBC \/ SaveAs \/ Except
  \/ FinallyClose \/ FinallyQuit \/ CleanupExcept \/ CoUninitialize
  \/ kill_excel_processes
  \/ MainSuccess \/ MainCatch

Spec == Init /\ [][Next]_vars

\* ------------------------------------------------------------ properties
\* What the properties below say of the input, stated without the program's
\* own filter.
HasRequired(rec) ==
  /\ rec["width"] # None
  /\ rec["length"] # None
  /\ rec["cohesion"] # None
  /\ rec["phi"] # None

\* The same of a sheet row: width, length, cohesion and phi are its first
\* four cells.
RowHasRequired(row) == \A c \in 1..4 : row[c] # None

\* The valid rows of the input table, in input order.
ValidInput == SelectSeq(inputTable, RowHasRequired)

\* A record holds the cells of a sheet row.
IsRecordOf(rec, row) ==
  /\ rec["width"] = row[1]
  /\ rec["length"] = row[2]
  /\ rec["cohesion"] = row[3]
  /\ rec["phi"] = row[4]
  /\ rec["gwt_depth"] = row[5]
  /\ rec["burial_depth"] = row[6]

Range(s) == {s[i] : i \in 1..Len(s)}

LastRow(sheet) == CHOOSE m \in DOMAIN sheet : \A k \in DOMAIN sheet : k <= m

RECURSIVE RowsFrom(_, _, _)
RowsFrom(sheet, r, last) ==
  IF r > last THEN <<>>
  ELSE (IF r \in DOMAIN sheet THEN <<sheet[r]>> ELSE <<>>) \o RowsFrom(sheet, r + 1, last)

\* The data rows of a sheet, top to bottom: the rows under the header that
\* hold cells.
DataRows(sheet) == IF DOMAIN sheet = {} THEN <<>> ELSE RowsFrom(sheet, 2, LastRow(sheet))

\* The output row an input row and its result are expected to give.
ExpectedRow(row, result) == row \o <<result>>

\* The header row.
ExpectedHeader ==
  <<"width", "length", "cohesion", "phi", "gwt_depth", "burial_depth",
    "Safe_Bearing_Capacity_kN_m2">>

\* The artifact name of case k < 1000.
ExpectedName(k) ==
  LET d == <<"0", "1", "2", "3", "4", "5", "6", "7", "8", "9">>
  IN  <<"Design_Case_", d[(k \div 100) + 1], d[((k \div 10) % 10) + 1], d[(k % 10) + 1], ".xlsx">>

HasArtifact(path) == \E f \in artifacts : f.path = path

\* The preconditions whose failure is fatal.
Fatal ==
  \/ ~inputExists
  \/ ~designExists
  \/ inputTable = <<>>
  \/ ValidInput = <<>>

\* C1: after the batch loop the saved Output Table holds its data rows in
\* the consecutive rows 2..(successes+1): a failed case leaves no row and no
\* empty row at its position.
C1_FailedCaseLeavesNoRow ==
  pc = "done" => DOMAIN outputFile = 1..(Len(results) + 1)

\* C2: the data rows of the Output Table, top to bottom, are the valid input
\* records whose case returned, in input order and once each, every row
\* holding the record's own values followed by the result its case returned.
C2_RowsAreSucceededRecordsInOrder ==
  /\ \A i \in 1..Len(results) : \A j \in 1..Len(results) :
       i < j => results[i].case_idx < results[j].case_idx
  /\ pc \in {"loop", "done"} =>
       DataRows(ws_out) =
         [i \in 1..Len(results) |->
            ExpectedRow(ValidInput[results[i].case_idx], results[i].sbc)]
  /\ pc = "done" => /\ outputFile = ws_out
                    /\ outputFile[1] = ExpectedHeader

\* C2 witness: a finished batch of three valid records, not all alike, whose
\* first case failed and whose other two returned different results.
C2_Witness ==
  /\ pc = "done"
  /\ Len(driven) = 3
  /\ Len(results) = 2
  /\ results[1].case_idx = 2
  /\ results[1].sbc # results[2].sbc
  /\ driven[2].param_set # driven[3].param_set

\* C3: a record lacking width, length, cohesion or phi is never passed to
\* process_design_file, never gets a row in the Output Table and never
\* produces an artifact.
C3_InvalidRecordNeverProcessed ==
  /\ \A i \in 1..Len(driven) : HasRequired(driven[i].param_set)
  /\ Len(driven) <= Len(ValidInput)
  /\ \A r \in DOMAIN ws_out \ {1} : \A c \in 1..4 : ws_out[r][c] # None
  /\ \A r \in DOMAIN outputFile \ {1} : \A c \in 1..4 : outputFile[r][c] # None
  /\ \A f \in artifacts : HasRequired(f.cells)
  /\ Cardinality(artifacts) <= Len(ValidInput)

\* C3 witness: a finished batch whose input begins with a record lacking phi
\* and goes on with a valid record that got its row and its artifact.
C3_Witness ==
  /\ pc = "done"
  /\ Len(inputTable) >= 2
  /\ inputTable[1][4] = None
  /\ RowHasRequired(inputTable[2])
  /\ 2 \in DOMAIN outputFile
  /\ artifacts # {}

\* C4: once the fatal preconditions have passed, no case failure aborts the
\* batch: every valid record is handed to process_design_file once, in
\* order, and the Output Table is saved exactly once, after the last case.
C4_CaseFailureNeverAbortsBatch ==
  /\ pc = "aborted" => Fatal /\ driven = <<>>
  /\ Len(driven) <= Len(ValidInput)
  /\ \A i \in 1..Len(driven) : IsRecordOf(driven[i].param_set, ValidInput[i])
  /\ saveCount = (IF pc = "done" THEN 1 ELSE 0)
  /\ pc = "done" => /\ Len(driven) = Len(ValidInput)
                    /\ 1 \in DOMAIN outputFile

\* C4 witness: a finished batch of three valid records whose every case
\* failed, saved as a header-only table.
C4_Witness ==
  /\ pc = "done"
  /\ Len(driven) = 3
  /\ results = <<>>
  /\ saveCount = 1
  /\ DOMAIN outputFile = {1}

\* C5: with the input or the template file missing, an input table without
\* rows, or no valid row, main ends in an error before any call of
\* process_design_file, and writes no output file and no artifact; with a
\* file missing it also ends before the artifact directory is made.
C5_FatalPreconditionsAbortEarly ==
  /\ Fatal =>
       /\ pc \in {"check_input", "check_design", "mkdir", "load", "filter",
                  "template", "aborted"}
       /\ driven = <<>>
       /\ saveCount = 0
       /\ outputFile = <<>>
       /\ artifacts = {}
  /\ (~inputExists \/ ~designExists) =>
       /\ ~dirMade
       /\ pc \in {"check_input", "check_design", "aborted"}
  /\ (pc = "template" /\ ValidInput = <<>>) => valid_rows = <<>>
  /\ pc = "aborted" => error # None

\* C5 witness: main has aborted on an input table that has rows, none of
\* them valid.
C5_Witness ==
  /\ pc = "aborted"
  /\ inputExists /\ designExists
  /\ Len(inputTable) >= 2
  /\ ValidInput = <<>>
  /\ error = "IndexError"

\* C6: the k-th valid record is driven with case index k and the artifact
\* name Design_Case_{k:03d}.xlsx whether or not earlier cases failed; the
\* indices rise by 1 from 1 and no two cases share an artifact path.
C6_CaseIndexIsPositionAmongValid ==
  /\ \A k \in 1..Len(driven) :
       /\ driven[k].case_idx = k
       /\ IsRecordOf(driven[k].param_set, ValidInput[k])
       /\ driven[k].output_path = ExpectedName(k)
  /\ \A j \in 1..Len(driven) : \A k \in 1..Len(driven) :
       j # k => driven[j].output_path # driven[k].output_path
  /\ \A f \in artifacts : \E k \in 1..Len(driven) :
       /\ f.path = ExpectedName(k)
       /\ IsRecordOf(f.cells, ValidInput[k])

\* C6 witness: the third valid record is being driven after the first two
\* cases failed.
C6_Witness ==
  /\ Len(driven) = 3
  /\ results = <<>>
  /\ dpc = "SaveAs"
  /\ driven[3].case_idx = 3

\* C7: at the end of a run a valid record has an artifact if and only if it
\* has a data row in the Output Table.
C7_ArtifactIffRow ==
  pc = "done" =>
    \A k \in 1..Len(driven) :
      HasArtifact(driven[k].output_path) <=> (k + 1) \in DOMAIN outputFile

\* C8: a failure during cleanup (close, quit, connection release, process
\* sweep) is never propagated: when steps 1-6 succeeded, process_design_file
\* returns to main.
C8_CleanupFailureNotPropagated ==
  (dpc = "exited" /\ pending = "return") => ~raised

\* C9: on every exit of process_design_file the opened workbook's close and
\* the started engine's quit have both been attempted, the quit also when
\* the close failed.
C9_CloseAndQuitBothAttempted ==
  dpc = "exited" =>
    /\ wb # None => "Close" \in Range(trace)
    /\ excel # None => "Quit" \in Range(trace)

\* C10: every invocation of process_design_file ends with exactly one
\* completed process sweep, whatever the case's outcome.
C10_OneSweepAfterEveryCase ==
  dpc = "exited" => sweeps = 1

====
